---- MODULE Spec2Model ----
(***************************************************************************)
(* Model of the icrc1 canister testing utility: the interactive            *)
(* orchestrator (helper.py / testing/helper.py), the canonical test script *)
(* it invokes (testing/tests/helper_test.py) with its deployment runner,   *)
(* the template renderer (write_init_args), log_execution with the child   *)
(* process and its two pipes, and the counters of validate_output.         *)
(*                                                                         *)
(* Units (canisters) and test scripts are named by the integers 1..Max*;   *)
(* the template path of unit u, <templates-dir>/<u>.template, is written   *)
(* u; Python's None is written None.                                       *)
(***************************************************************************)
EXTENDS Integers, Sequences, FiniteSets, TLC

\* ------------------------------------------------------------------ bounds
MaxUnits == 2
MaxScripts == 2

Units == 1..MaxUnits
Scripts == 1..MaxScripts

\* Python's None, for names and paths (both positive integers here).
None == 0
\* A dict that has no "template_path" key.
KeyMissing == -1
\* JSON null, as json.dumps writes None.
JsonNull == -2

\* The names of S in the order a listing yields them (a dict's keys, the
\* files glob finds): taken in ascending order here, so that the k-th listed
\* name differs from k whenever a smaller name is not listed.
RECURSIVE Ascending(_)
Ascending(S) ==
    IF S = {} THEN <<>>
    ELSE LET m == CHOOSE x \in S : \A y \in S : x <= y
         IN  <<m>> \o Ascending(S \ {m})

Listings(S) == {Ascending(T) : T \in SUBSET S}

\* ------------------------------------------------------- console input
\* int(input(...)): an optional sign followed by at least one decimal digit
\* parses; anything else raises ValueError.
DigitChars == <<"0", "1", "2", "3", "4", "5", "6", "7", "8", "9">>

IsDigit(c) == \E d \in 1..Len(DigitChars) : DigitChars[d] = c

DigitValue(c) == (CHOOSE d \in 1..Len(DigitChars) : DigitChars[d] = c) - 1

RECURSIVE DecimalValue(_)
DecimalValue(digits) ==
    IF digits = <<>> THEN 0
    ELSE 10 * DecimalValue(SubSeq(digits, 1, Len(digits) - 1))
         + DigitValue(digits[Len(digits)])

\* [ok |-> FALSE] stands for ValueError.
int(line) ==
    LET signed == Len(line) > 0 /\ line[1] \in {"-", "+"}
        digits == IF signed THEN Tail(line) ELSE line
        ok     == Len(digits) > 0 /\ \A i \in 1..Len(digits) : IsDigit(digits[i])
    IN  IF ~ok THEN [ok |-> FALSE, val |-> 0]
        ELSE [ok |-> TRUE,
              val |-> IF signed /\ line[1] = "-" THEN 0 - DecimalValue(digits)
                      ELSE DecimalValue(digits)]

\* The largest menu length, and the lines a user may type at a prompt:
\* the empty line, one character among a sign, a letter and the digits
\* 0..MaxItems+1, and two characters that start with a sign or with 1 or
\* end with a letter.
MaxItems == IF MaxUnits > MaxScripts THEN MaxUnits ELSE MaxScripts

InputChars == {"-", "x"} \cup {DigitChars[d + 1] : d \in 0..(MaxItems + 1)}

Lines ==
    {<<>>} \cup {<<a>> : a \in InputChars}
           \cup {<<a, b>> : a \in {"-", "1"}, b \in InputChars}
           \cup {<<a, "x">> : a \in InputChars}

\* What one pass of a prompter's "while True" loop does with one input line:
\* it either returns `value` or prints `printed` and prompts again.
Return(v) == [returned |-> TRUE, value |-> v, printed |-> "return"]

Reprompt(msg) == [returned |-> FALSE, value |-> None, printed |-> msg]

\* Faulty variant: a ValueError ends the prompt as a cancel.
main_menu_value_error_cancels(scripts, line) ==
    LET choice == int(line)
    IN  IF ~choice.ok THEN Return(None)
        ELSE IF 0 <= choice.val /\ choice.val <= Len(scripts)
             THEN IF choice.val = 0 THEN Return(None)
                  ELSE Return(scripts[choice.val])
             ELSE Reprompt("Invalid choice. Try again.")

main_menu(scripts, line) ==
    LET choice == int(line)
    IN  IF ~choice.ok THEN Reprompt("Please enter a valid number.")
        ELSE IF 0 <= choice.val /\ choice.val <= Len(scripts)
             THEN IF choice.val = 0 THEN Return(None)
                  ELSE Return(scripts[choice.val])
             ELSE Reprompt("Invalid choice. Try again.")

\* `units` is a dict in key order: a sequence of [name, template_path].
canister_selection(units, line) ==
    LET choice == int(line)
    IN  IF ~choice.ok THEN Reprompt("Please enter a valid number.")
        ELSE IF choice.val = 0 THEN Return(None)
        ELSE IF 1 <= choice.val /\ choice.val <= Len(units)
             THEN Return(units[choice.val].name)
             ELSE Reprompt("Invalid choice. Try again.")

\* ------------------------------------------------------------ discovery
\* The value json.load gives for a manifest listing `names` under "canisters"
\* (an absent "canisters" key reads as the empty dict).
Manifest(names) ==
    [none |-> FALSE,
     canisters |-> [i \in 1..Len(names) |->
                      [name |-> names[i], template_path |-> KeyMissing]]]

DfxNone == [none |-> TRUE, canisters |-> <<>>]

\* Faulty variant: a missing manifest reads as an empty one instead of None.
load_dfx_json_missing_is_empty(file) ==
    IF file.state = "missing"
    THEN [value |-> Manifest(<<>>), printed |-> <<"WARNING: 'dfx.json' FILE NOT FOUND">>]
    ELSE IF file.state = "malformed"
    THEN [value |-> DfxNone, printed |-> <<"WARNING: FAILED TO PARSE 'dfx.json'">>]
    ELSE [value |-> Manifest(file.canisters), printed |-> <<>>]

load_dfx_json(file) ==
    IF file.state = "missing"
    THEN [value |-> DfxNone, printed |-> <<"WARNING: 'dfx.json' FILE NOT FOUND">>]
    ELSE IF file.state = "malformed"
    THEN [value |-> DfxNone, printed |-> <<"WARNING: FAILED TO PARSE 'dfx.json'">>]
    ELSE [value |-> Manifest(file.canisters), printed |-> <<>>]

\* <templates-dir>/<name>.template, and whether it names an existing file.
TemplatePath(name) == name

PathExists(dir, path) == dir.exists /\ path \in dir.files

\* Faulty variant: the candidate path is attached without looking for the file.
find_template_files_unchecked(units, dir) ==
    IF ~dir.exists
    THEN [canisters |-> units,
          printed |-> <<"WARNING: 'args_templates' DIRECTORY NOT FOUND.">>]
    ELSE [canisters |->
            [i \in 1..Len(units) |->
               [units[i] EXCEPT !.template_path = TemplatePath(units[i].name)]],
          printed |-> <<>>]

find_template_files(units, dir) ==
    IF ~dir.exists
    THEN [canisters |-> units,
          printed |-> <<"WARNING: 'args_templates' DIRECTORY NOT FOUND.">>]
    ELSE [canisters |->
            [i \in 1..Len(units) |->
               [units[i] EXCEPT !.template_path =
                  IF PathExists(dir, TemplatePath(units[i].name))
                  THEN TemplatePath(units[i].name) ELSE None]],
          printed |-> <<>>]

\* The "Template Path:" line canister_selection prints for a unit record.
\* testing/helper.py: info.get("template_path") or "NO TEMPLATE FILE FOUND".
Shown(text, path) == [text |-> text, path |-> path]

template_path_shown(info) ==
    IF info.template_path \in {KeyMissing, None}
    THEN Shown("NO TEMPLATE FILE FOUND", None)
    ELSE Shown("path", info.template_path)

\* helper.py: info.get("template_path", "NO TEMPLATE FILE FOUND"); the
\* default is for a missing key, and a None that is there is printed.
template_path_shown_helper(info) ==
    IF info.template_path = KeyMissing
    THEN Shown("NO TEMPLATE FILE FOUND", None)
    ELSE IF info.template_path = None
    THEN Shown("None", None)
    ELSE Shown("path", info.template_path)

list_test_scripts(dir) ==
    IF ~dir.exists
    THEN [scripts |-> <<>>, printed |-> <<"WARNING: 'tests' DIRECTORY NOT FOUND.">>]
    ELSE [scripts |-> dir.scripts, printed |-> <<>>]

\* ------------------------------------------------------ script invocation
\* json.dumps of the payload and json.loads of it in the script: None is
\* written null and read back as None; a missing key stays missing.
\* Faulty variant: only the record of the selected unit is passed on.
json_dumps_selected_only(units, selected) ==
    [canisters |-> [i \in 1..Len(SelectSeq(units, LAMBDA u : u.name = selected)) |->
                      [SelectSeq(units, LAMBDA u : u.name = selected)[i]
                         EXCEPT !.template_path =
                           IF @ = None THEN JsonNull ELSE @]],
     selected_canister |-> selected]

json_dumps(units, selected) ==
    [canisters |-> [i \in 1..Len(units) |->
                      [units[i] EXCEPT !.template_path =
                         IF @ = None THEN JsonNull ELSE @]],
     selected_canister |-> selected]

json_loads(text) ==
    [canisters |-> [i \in 1..Len(text.canisters) |->
                      [text.canisters[i] EXCEPT !.template_path =
                         IF @ = JsonNull THEN None ELSE @]],
     selected_canister |-> text.selected_canister]

NoCommand == [script |-> None, arg |-> json_dumps(<<>>, None)]

\* Faulty variant: nothing catches the exception, and main ends with it.
after_log_execution_uncaught(raised) ==
    IF raised
    THEN [pc |-> "crashed", printed |-> <<"Traceback">>]
    ELSE [pc |-> "list_test_scripts",
          printed |-> <<"Execution logged", "Returning to main menu...">>]

\* The try/except around log_execution in main: an exception is reported,
\* and either way the loop goes back to listing the scripts.
after_log_execution(raised) ==
    [pc |-> "list_test_scripts",
     printed |-> IF raised
                 THEN <<"UNEXPECTED ERROR OCCURRED", "Returning to main menu...">>
                 ELSE <<"Execution logged", "Returning to main menu...">>]

\* ----------------------------------------------------- the test script
\* dict.get(key, {}) on the "canisters" mapping, and info.get("template_path").
GetUnit(units, name) ==
    IF \E i \in 1..Len(units) : units[i].name = name
    THEN units[CHOOSE i \in 1..Len(units) : units[i].name = name]
    ELSE [name |-> name, template_path |-> KeyMissing]

GetTemplatePath(info) ==
    IF info.template_path = KeyMissing THEN None ELSE info.template_path

\* Faulty variant: only the absent marker is checked, not the file.
TemplateUnusable_marker_only(path, dir) == path = None

\* "not template_path or not os.path.exists(template_path)"
TemplateUnusable(path, dir) == path = None \/ ~PathExists(dir, path)

\* Path(template_path).stem, and <args-dir>/<stem>.candid.
Stem(path) == path

CandidPath(stem) == stem

\* run_command: True exactly when the command was run and exited with 0;
\* a non-zero exit and an exception both give False.
Outcomes == {"exit0", "nonzero", "exception"}

\* Faulty variant: the except branch reports the exception and returns True.
run_command_exception_true(outcome) == outcome # "nonzero"

run_command(outcome) == outcome = "exit0"

\* deploy_canister: the step that follows `step` when run_command gave `ok`.
DeploySteps == {"create", "build", "install", "stop", "delete"}

\* Faulty variant: a failed build is not checked and install goes ahead.
deploy_canister_build_unchecked(step, ok) ==
    CASE step = "create"  -> IF ok THEN "build" ELSE "stop"
      [] step = "build"   -> "install"
      [] step = "install" -> IF ok THEN "return True" ELSE "stop"
      [] step = "stop"    -> "delete"
      [] step = "delete"  -> "return False"

\* Faulty variant: cleanup gives up when stop fails.
deploy_canister_stop_checked(step, ok) ==
    CASE step = "create"  -> IF ok THEN "build" ELSE "stop"
      [] step = "build"   -> IF ok THEN "install" ELSE "stop"
      [] step = "install" -> IF ok THEN "return True" ELSE "stop"
      [] step = "stop"    -> IF ok THEN "delete" ELSE "return False"
      [] step = "delete"  -> "return False"

\* Faulty variant: cleanup also runs after a successful install.
deploy_canister_cleanup_always(step, ok) ==
    CASE step = "create"  -> IF ok THEN "build" ELSE "stop"
      [] step = "build"   -> IF ok THEN "install" ELSE "stop"
      [] step = "install" -> "stop"
      [] step = "stop"    -> "delete"
      [] step = "delete"  -> "return False"

deploy_canister(step, ok) ==
    CASE step = "create"  -> IF ok THEN "build" ELSE "stop"
      [] step = "build"   -> IF ok THEN "install" ELSE "stop"
      [] step = "install" -> IF ok THEN "return True" ELSE "stop"
      [] step = "stop"    -> "delete"
      [] step = "delete"  -> "return False"

ZeroCounters == [total |-> 0, success |-> 0, failed |-> 0, id |-> 1]

\* Faulty variant: a failed test is counted in the total only.
validate_output_failed_uncounted(actual, expected, counters) ==
    [total   |-> counters.total + 1,
     success |-> IF actual = expected THEN counters.success + 1 ELSE counters.success,
     failed  |-> counters.failed,
     id      |-> counters.id + 1]

validate_output(actual, expected, counters) ==
    [total   |-> counters.total + 1,
     success |-> IF actual = expected THEN counters.success + 1 ELSE counters.success,
     failed  |-> IF actual = expected THEN counters.failed ELSE counters.failed + 1,
     id      |-> counters.id + 1]

\* ---------------------------------------------------------------- state
VARIABLES
    dfx_json,          \* the manifest file: missing, malformed, or its units
    tests_dir,         \* the scripts directory and the scripts glob yields
    args_templates,    \* the templates directory and the units with a template
    pc,                \* where main's loop stands
    test_scripts,      \* main's locals
    selected_script,
    dfx_data,
    canisters,
    selected_canister,
    command,
    log_outcome,       \* how the last log_execution call ended
    console,           \* the lines the last step printed
    spc,               \* where the invoked test script stands
    template_path,     \* the script's locals
    written,           \* the parameter files the script has written
    calls,             \* the external commands deploy_canister has run
    deploy_success,
    counters,
    exit_status,
    template,          \* write_init_args: the text of the template file
    variables,         \* the mapping, in order: a sequence of [key, value]
    content,           \* the text being rendered
    next_key,          \* the position of the "for key, value" loop
    output,            \* the text of the rendered .candid file
    rpc,               \* where write_init_args stands
    writes,            \* what each write_init_args call so far has written
    clock,             \* the wall clock, in ticks
    logs,              \* the logs directory: the file of each timestamp
    script_name,       \* log_execution's argument
    timestamp,         \* log_execution's locals
    log,               \* the handle of the log file
    process,           \* the Popen object: its two streams, and wait()
    child,             \* the child: the lines it has written and has yet to write
    stdout_pipe,       \* the lines in the pipes, written and not yet read
    stderr_pipe,
    terminal,          \* what log_execution has printed
    lpc,               \* where log_execution stands
    starts,            \* the log_execution calls so far: second and script
    history            \* the validate_output calls so far

fs == <<dfx_json, tests_dir, args_templates>>

locals == <<test_scripts, selected_script, dfx_data, canisters,
            selected_canister, command, log_outcome>>

script == <<spc, template_path, written, calls, deploy_success, counters,
            exit_status>>

session == <<fs, pc, locals, console, script>>

render == <<template, variables, content, next_key, output, rpc, writes>>

logging == <<clock, logs, script_name, timestamp, log, process, child,
             stdout_pipe, stderr_pipe, terminal, lpc, starts>>

tally == <<history>>

vars == <<session, render, logging, tally>>

\* write_init_args is not being followed.
NoRendering ==
    /\ template = <<>>
    /\ variables = <<>>
    /\ content = <<>>
    /\ next_key = 1
    /\ output = <<>>
    /\ rpc = "idle"
    /\ writes = <<>>

\* No script process exists: none was started yet, or the last one is gone.
NoProcess ==
    /\ spc = "not started"
    /\ template_path = None
    /\ written = {}
    /\ calls = <<>>
    /\ deploy_success = "unset"
    /\ counters = ZeroCounters
    /\ exit_status = 0

\* The clock counts ticks, TicksPerSecond of them to a second, up to
\* MaxClock; strftime('%Y%m%d_%H%M%S') keeps the second and drops the rest.
MaxClock == 2

TicksPerSecond == 2

strftime(now) == now \div TicksPerSecond

Seconds == {strftime(now) : now \in 0..MaxClock}

\* A path of the logs directory that names no file, and a file of it.
NoFile == [exists |-> FALSE, lines |-> <<>>]

File(lines) == [exists |-> TRUE, lines |-> lines]

\* The Popen object before Popen, and the child before it is started.
NoPopen == [stdout |-> "none", stderr |-> "none", waited |-> FALSE]

NoChild == [state |-> "none", todo |-> <<>>, wrote |-> <<>>]

\* log_execution is not being followed, and the logs directory is empty.
NoLogging ==
    /\ clock = 0
    /\ logs = [t \in Seconds |-> NoFile]
    /\ script_name = None
    /\ timestamp = None
    /\ log = "none"
    /\ process = NoPopen
    /\ child = NoChild
    /\ stdout_pipe = <<>>
    /\ stderr_pipe = <<>>
    /\ terminal = <<>>
    /\ lpc = "idle"
    /\ starts = <<>>

NoTally == history = <<>>

\* No session is going on: main has not gone round its loop.
NoSession ==
    /\ dfx_json = [state |-> "missing", canisters |-> <<>>]
    /\ tests_dir = [exists |-> FALSE, scripts |-> <<>>]
    /\ args_templates = [exists |-> FALSE, files |-> {}]
    /\ pc = "list_test_scripts"
    /\ test_scripts = <<>>
    /\ selected_script = None
    /\ dfx_data = DfxNone
    /\ canisters = <<>>
    /\ selected_canister = None
    /\ command = NoCommand
    /\ log_outcome = "none"
    /\ console = <<>>

Init ==
    /\ dfx_json \in
         {[state |-> "missing", canisters |-> <<>>],
          [state |-> "malformed", canisters |-> <<>>]}
         \cup {[state |-> "ok", canisters |-> l] : l \in Listings(Units)}
    /\ tests_dir \in
         {[exists |-> FALSE, scripts |-> <<>>]}
         \cup {[exists |-> TRUE, scripts |-> l] : l \in Listings(Scripts)}
    /\ args_templates \in
         {[exists |-> FALSE, files |-> {}]}
         \cup {[exists |-> TRUE, files |-> F] : F \in SUBSET Units}
    /\ pc = "list_test_scripts"
    /\ test_scripts = <<>>
    /\ selected_script = None
    /\ dfx_data = DfxNone
    /\ canisters = <<>>
    /\ selected_canister = None
    /\ command = NoCommand
    /\ log_outcome = "none"
    /\ console = <<>>
    /\ NoProcess
    /\ NoRendering
    /\ NoLogging
    /\ NoTally

\* ------------------------------------------------- the orchestrator loop
\* The top of "while True". main's other locals are dead here, each being
\* assigned again before it is read, and are written back to their first values.
ListTestScripts ==
    /\ pc = "list_test_scripts"
    /\ LET r == list_test_scripts(tests_dir)
       IN  /\ test_scripts' = r.scripts
           /\ console' = r.printed
    /\ pc' = "main_menu"
    /\ selected_script' = None
    /\ dfx_data' = DfxNone
    /\ canisters' = <<>>
    /\ selected_canister' = None
    /\ command' = NoCommand
    /\ log_outcome' = "none"
    /\ UNCHANGED <<fs, script>>
    /\ UNCHANGED <<render, logging, tally>>

MainMenu(line) ==
    /\ pc = "main_menu"
    /\ LET r == main_menu(test_scripts, line)
       IN  IF ~r.returned
           THEN /\ console' = <<r.printed>>
                /\ UNCHANGED <<pc, selected_script>>
           ELSE /\ selected_script' = r.value
                /\ IF r.value = None
                   THEN pc' = "exited" /\ console' = <<"Exiting...">>
                   ELSE pc' = "load_dfx_json" /\ console' = <<>>
    /\ UNCHANGED <<fs, test_scripts, dfx_data, canisters, selected_canister,
                   command, log_outcome, script>>
    /\ UNCHANGED <<render, logging, tally>>

LoadDfxJson ==
    /\ pc = "load_dfx_json"
    /\ LET r == load_dfx_json(dfx_json)
       IN  /\ dfx_data' = r.value
           /\ console' = r.printed
           /\ pc' = IF r.value.none THEN "canister_selection (no manifest)"
                    ELSE "get_canisters"
    /\ UNCHANGED <<fs, test_scripts, selected_script, canisters,
                   selected_canister, command, log_outcome, script>>
    /\ UNCHANGED <<render, logging, tally>>

\* Faulty variant: the "continue" is missing, and main goes on after an abort.
CanisterSelectionNoManifest_no_continue(line) ==
    /\ pc = "canister_selection (no manifest)"
    /\ LET r == canister_selection(<<>>, line)
       IN  IF ~r.returned
           THEN /\ console' = <<r.printed>>
                /\ UNCHANGED <<pc, selected_canister>>
           ELSE /\ selected_canister' = r.value
                /\ pc' = "get_canisters"
                /\ console' = <<"Returning to main menu...">>
    /\ UNCHANGED <<fs, test_scripts, selected_script, dfx_data, canisters,
                   command, log_outcome, script>>
    /\ UNCHANGED <<render, logging, tally>>

\* canister_selection({}, error) after load_dfx_json gave None: on None the
\* loop continues, otherwise main goes on to dfx_data.get.
CanisterSelectionNoManifest(line) ==
    /\ pc = "canister_selection (no manifest)"
    /\ LET r == canister_selection(<<>>, line)
       IN  IF ~r.returned
           THEN /\ console' = <<r.printed>>
                /\ UNCHANGED <<pc, selected_canister>>
           ELSE /\ selected_canister' = r.value
                /\ IF r.value = None
                   THEN /\ pc' = "list_test_scripts"
                        /\ console' = <<"Returning to main menu...">>
                   ELSE pc' = "get_canisters" /\ console' = <<>>
    /\ UNCHANGED <<fs, test_scripts, selected_script, dfx_data, canisters,
                   command, log_outcome, script>>
    /\ UNCHANGED <<render, logging, tally>>

\* canisters = dfx_data.get("canisters", {}): None has no get, and the
\* AttributeError is caught by nothing.
GetCanisters ==
    /\ pc = "get_canisters"
    /\ IF dfx_data.none
       THEN /\ pc' = "crashed"
            /\ console' = <<"AttributeError">>
            /\ UNCHANGED canisters
       ELSE /\ canisters' = dfx_data.canisters
            /\ console' = <<>>
            /\ pc' = IF dfx_data.canisters = <<>>
                     THEN "canister_selection (no canisters)"
                     ELSE "find_template_files"
    /\ UNCHANGED <<fs, test_scripts, selected_script, dfx_data,
                   selected_canister, command, log_outcome, script>>
    /\ UNCHANGED <<render, logging, tally>>

CanisterSelectionNoCanisters(line) ==
    /\ pc = "canister_selection (no canisters)"
    /\ LET r == canister_selection(<<>>, line)
       IN  IF ~r.returned
           THEN /\ console' = <<r.printed>>
                /\ UNCHANGED <<pc, selected_canister>>
           ELSE /\ selected_canister' = r.value
                /\ IF r.value = None
                   THEN /\ pc' = "list_test_scripts"
                        /\ console' = <<"Returning to main menu...">>
                   ELSE pc' = "find_template_files" /\ console' = <<>>
    /\ UNCHANGED <<fs, test_scripts, selected_script, dfx_data, canisters,
                   command, log_outcome, script>>
    /\ UNCHANGED <<render, logging, tally>>

FindTemplateFiles ==
    /\ pc = "find_template_files"
    /\ LET r == find_template_files(canisters, args_templates)
       IN  /\ canisters' = r.canisters
           /\ console' = r.printed
    /\ pc' = "canister_selection"
    /\ UNCHANGED <<fs, test_scripts, selected_script, dfx_data,
                   selected_canister, command, log_outcome, script>>
    /\ UNCHANGED <<render, logging, tally>>

CanisterSelection(line) ==
    /\ pc = "canister_selection"
    /\ LET r == canister_selection(canisters, line)
       IN  IF ~r.returned
           THEN /\ console' = <<r.printed>>
                /\ UNCHANGED <<pc, selected_canister, command>>
           ELSE /\ selected_canister' = r.value
                /\ IF r.value = None
                   THEN /\ pc' = "list_test_scripts"
                        /\ console' = <<"Returning to main menu...">>
                        /\ UNCHANGED command
                   ELSE /\ pc' = "log_execution"
                        /\ console' = <<>>
                        /\ command' = [script |-> selected_script,
                                       arg |-> json_dumps(canisters, r.value)]
    /\ UNCHANGED <<fs, test_scripts, selected_script, dfx_data, canisters,
                   log_outcome, script>>
    /\ UNCHANGED <<render, logging, tally>>

\* log_execution up to Popen: creating the log or starting the process may
\* raise (then main's except reports it); otherwise the script starts with
\* fresh locals and the parent streams its output.
LogExecutionStart(raised) ==
    /\ pc = "log_execution"
    /\ IF raised
       THEN /\ log_outcome' = "raised"
            /\ pc' = after_log_execution(TRUE).pc
            /\ console' = after_log_execution(TRUE).printed
            /\ UNCHANGED script
       ELSE /\ log_outcome' = "running"
            /\ pc' = "streaming"
            /\ console' = <<"Running">>
            /\ spc' = "main"
            /\ template_path' = None
            /\ written' = {}
            /\ calls' = <<>>
            /\ deploy_success' = "unset"
            /\ counters' = ZeroCounters
            /\ exit_status' = 0
    /\ UNCHANGED <<fs, test_scripts, selected_script, dfx_data, canisters,
                   selected_canister, command>>
    /\ UNCHANGED <<render, logging, tally>>

\* The script has exited and both pipes are at end of file: log_execution
\* returns, or raises while writing the last lines; its exit code is not read,
\* and with the process gone nothing of its state remains.
LogExecutionEnd(raised) ==
    /\ pc = "streaming"
    /\ spc = "exited"
    /\ log_outcome' = IF raised THEN "raised" ELSE "returned"
    /\ pc' = after_log_execution(raised).pc
    /\ console' = after_log_execution(raised).printed
    /\ spc' = "not started"
    /\ template_path' = None
    /\ written' = {}
    /\ calls' = <<>>
    /\ deploy_success' = "unset"
    /\ counters' = ZeroCounters
    /\ exit_status' = 0
    /\ UNCHANGED <<fs, test_scripts, selected_script, dfx_data, canisters,
                   selected_canister, command>>
    /\ UNCHANGED <<render, logging, tally>>

\* ------------------------------------- the test script (helper_test.py)
Exit(status, msg) ==
    /\ spc' = "exited"
    /\ exit_status' = status
    /\ console' = msg

\* main up to "if selected_canister:"; without a selection main falls
\* through to its end.
ScriptMain ==
    /\ pc = "streaming" /\ spc = "main"
    /\ IF json_loads(command.arg).selected_canister # None
       THEN spc' = "get_principal" /\ console' = <<"Received Canister Information:">>
            /\ UNCHANGED exit_status
       ELSE Exit(0, <<"Received Canister Information:">>)
    /\ UNCHANGED <<fs, pc, locals, template_path, written, calls,
                   deploy_success, counters>>
    /\ UNCHANGED <<render, logging, tally>>

GetPrincipal(ok) ==
    /\ pc = "streaming" /\ spc = "get_principal"
    /\ IF ok
       THEN spc' = "check_template" /\ console' = <<>> /\ UNCHANGED exit_status
       ELSE Exit(1, <<"ERROR: COULD NOT FETCH PRINCIPAL">>)
    /\ UNCHANGED <<fs, pc, locals, template_path, written, calls,
                   deploy_success, counters>>
    /\ UNCHANGED <<render, logging, tally>>

\* PHASE 2 of main, up to the call of write_init_args.
CheckTemplate ==
    /\ pc = "streaming" /\ spc = "check_template"
    /\ LET info == json_loads(command.arg)
           path == GetTemplatePath(GetUnit(info.canisters, info.selected_canister))
       IN  /\ template_path' = path
           /\ IF TemplateUnusable(path, args_templates)
              THEN Exit(1, <<"ERROR: NO TEMPLATE FILE FOUND FOR">>)
              ELSE spc' = "write_init_args" /\ console' = <<>>
                   /\ UNCHANGED exit_status
    /\ UNCHANGED <<fs, pc, locals, written, calls, deploy_success, counters>>
    /\ UNCHANGED <<render, logging, tally>>

\* write_init_args: exit(1) without a template; an exception while reading
\* or writing also ends in exit(1); otherwise <args>/<stem>.candid is written.
WriteInitArgs(io_ok) ==
    /\ pc = "streaming" /\ spc = "write_init_args"
    /\ IF TemplateUnusable(template_path, args_templates)
       THEN Exit(1, <<"ERROR: NO TEMPLATE FILE FOUND AT">>) /\ UNCHANGED written
       ELSE IF ~io_ok
       THEN Exit(1, <<"ERROR: FAILED TO PROCESS TEMPLATE">>) /\ UNCHANGED written
       ELSE /\ written' = written \cup {CandidPath(Stem(template_path))}
            /\ spc' = "create"
            /\ console' = <<"Initialization arguments saved to:">>
            /\ UNCHANGED exit_status
    /\ UNCHANGED <<fs, pc, locals, template_path, calls, deploy_success, counters>>
    /\ UNCHANGED <<render, logging, tally>>

\* Faulty variant: install is run without the argument file.
install_cmd_no_argument(argument_file) == [cmd |-> "install", argument |-> None]

\* The install command of deploy_canister: with --argument "$(cat <file>)"
\* when an argument file was given, without it otherwise.
install_cmd(argument_file) ==
    IF argument_file # None
    THEN [cmd |-> "install", argument |-> argument_file]
    ELSE [cmd |-> "install", argument |-> None]

\* main: arg_file = BASE_DIR / 'args' / f"{Path(template_path).stem}.candid"
arg_file(path) == CandidPath(Stem(path))

\* Faulty variant: run_command ends the script when the command fails.
RunCommand_exits_on_failure(outcome) ==
    /\ pc = "streaming" /\ spc \in DeploySteps
    /\ calls' = Append(calls, [cmd |-> spc, outcome |-> outcome,
                               argument_file |-> None])
    /\ IF run_command(outcome)
       THEN LET next == deploy_canister(spc, TRUE)
            IN  /\ IF next \in DeploySteps
                   THEN spc' = next /\ UNCHANGED deploy_success
                   ELSE spc' = "validate_output" /\ deploy_success' = "True"
                /\ console' = <<>>
                /\ UNCHANGED exit_status
       ELSE /\ Exit(1, <<"ERROR: COULDN'T EXECUTE COMMAND">>)
            /\ UNCHANGED deploy_success
    /\ UNCHANGED <<fs, pc, locals, template_path, written, counters>>
    /\ UNCHANGED <<render, logging, tally>>

\* One run_command of deploy_canister and the branch taken on its result.
RunCommand(outcome) ==
    /\ pc = "streaming" /\ spc \in DeploySteps
    /\ calls' = Append(calls, [cmd |-> spc, outcome |-> outcome,
                               argument_file |-> IF spc = "install"
                                                 THEN install_cmd(arg_file(template_path)).argument
                                                 ELSE None])
    /\ LET next == deploy_canister(spc, run_command(outcome))
       IN  IF next \in DeploySteps
           THEN spc' = next /\ UNCHANGED deploy_success
           ELSE /\ spc' = "validate_output"
                /\ deploy_success' = IF next = "return True" THEN "True" ELSE "False"
    /\ console' = IF outcome = "exit0" THEN <<>>
                  ELSE IF outcome = "nonzero" THEN <<"COMMAND FAILED WITH RETURN CODE">>
                  ELSE <<"UNEXPECTED ERROR OCCURRED:">>
    /\ UNCHANGED <<fs, pc, locals, template_path, written, counters, exit_status>>
    /\ UNCHANGED <<render, logging, tally>>

\* validate_output and the final summary; main then returns.
ValidateOutput ==
    /\ pc = "streaming" /\ spc = "validate_output"
    /\ counters' = validate_output(IF deploy_success = "True" THEN "Success"
                                   ELSE "Failed", "Success", counters)
    /\ Exit(0, <<"TESTING COMPLETED">>)
    /\ UNCHANGED <<fs, pc, locals, template_path, written, calls, deploy_success>>
    /\ UNCHANGED <<render, logging, tally>>

\* --------------------------------------------------------- environment
\* Somebody deletes a template file after the templates were located and
\* before the script has rendered it (a later deletion changes nothing).
RemoveTemplate(u) ==
    /\ \/ pc \in {"canister_selection", "log_execution"}
       \/ pc = "streaming" /\ spc \in {"main", "get_principal", "check_template",
                                        "write_init_args"}
    /\ u \in args_templates.files
    /\ args_templates' = [args_templates EXCEPT !.files = @ \ {u}]
    /\ UNCHANGED <<dfx_json, tests_dir, pc, locals, console, script>>
    /\ UNCHANGED <<render, logging, tally>>

Next ==
    \/ ListTestScripts
    \/ \E line \in Lines : MainMenu(line)
    \/ LoadDfxJson
    \/ \E line \in Lines : CanisterSelectionNoManifest(line)
    \/ GetCanisters
    \/ \E line \in Lines : CanisterSelectionNoCanisters(line)
    \/ FindTemplateFiles
    \/ \E line \in Lines : CanisterSelection(line)
    \/ \E raised \in BOOLEAN : LogExecutionStart(raised)
    \/ \E raised \in BOOLEAN : LogExecutionEnd(raised)
    \/ ScriptMain
    \/ \E ok \in BOOLEAN : GetPrincipal(ok)
    \/ CheckTemplate
    \/ \E io_ok \in BOOLEAN : WriteInitArgs(io_ok)
    \/ \E outcome \in Outcomes : RunCommand(outcome)
    \/ ValidateOutput
    \/ \E u \in Units : RemoveTemplate(u)

Spec == Init /\ [][Next]_vars

\* ==================================================== template renderer
\* Texts are sequences of characters; a key is one character, and its
\* placeholder f"{{{key}}}" is the key between braces.
MaxLen == 3

Keys == {"a", "b"}

Chars == {"{", "}"} \cup Keys

Placeholder(key) == <<"{", key, "}">>

RECURSIVE TextsOfLen(_)
TextsOfLen(n) ==
    IF n = 0 THEN {<<>>}
    ELSE {<<c>> \o t : c \in Chars, t \in TextsOfLen(n - 1)}

Templates == UNION {TextsOfLen(n) : n \in 0..MaxLen}

\* Replacement values: the texts of at most one character and the placeholders.
Values == TextsOfLen(0) \cup TextsOfLen(1) \cup {Placeholder(k) : k \in Keys}

\* Mappings with distinct keys, in each order.
Mappings ==
    {<<>>}
    \cup {<<[key |-> k, value |-> v]>> : k \in Keys, v \in Values}
    \cup UNION {{<<[key |-> k1, value |-> v1], [key |-> k2, value |-> v2]>> :
                    k2 \in Keys \ {k1}, v1 \in Values, v2 \in Values} :
                  k1 \in Keys}

\* str.replace(old, new) for a non-empty old: the occurrences of old are
\* found from left to right, without overlap, in the text as it was.
RECURSIVE replace(_, _, _)
replace(text, old, new) ==
    IF Len(text) < Len(old) THEN text
    ELSE IF SubSeq(text, 1, Len(old)) = old
         THEN new \o replace(SubSeq(text, Len(old) + 1, Len(text)), old, new)
         ELSE <<text[1]>> \o replace(Tail(text), old, new)

\* write_init_args, from reading the template to writing the .candid file.
ReadTemplate ==
    /\ rpc = "read"
    /\ content' = template
    /\ next_key' = 1
    /\ rpc' = "replace"
    /\ UNCHANGED <<template, variables, output, writes>>
    /\ UNCHANGED <<session, logging, tally>>

\* One pass of "for key, value in variables.items()".
ReplaceKey ==
    /\ rpc = "replace"
    /\ next_key <= Len(variables)
    /\ content' = replace(content, Placeholder(variables[next_key].key),
                          variables[next_key].value)
    /\ next_key' = next_key + 1
    /\ UNCHANGED <<template, variables, output, rpc, writes>>
    /\ UNCHANGED <<session, logging, tally>>

\* Faulty variant: the output file is opened for appending.
open_w_write_appends(file, text) == file \o text

\* open(output_file, 'w') and file.write(content): whatever the file held
\* is gone, and the file holds the text written.
open_w_write(file, text) == text

WriteCandid ==
    /\ rpc = "replace"
    /\ next_key > Len(variables)
    /\ output' = open_w_write(output, content)
    /\ writes' = Append(writes, content)
    /\ rpc' = "written"
    /\ UNCHANGED <<template, variables, content, next_key>>
    /\ UNCHANGED <<session, logging, tally>>

\* write_init_args on every template and mapping within the bounds, with no
\* session going on around it.
InitRender ==
    /\ dfx_json = [state |-> "missing", canisters |-> <<>>]
    /\ tests_dir = [exists |-> FALSE, scripts |-> <<>>]
    /\ args_templates = [exists |-> FALSE, files |-> {}]
    /\ pc = "list_test_scripts"
    /\ test_scripts = <<>>
    /\ selected_script = None
    /\ dfx_data = DfxNone
    /\ canisters = <<>>
    /\ selected_canister = None
    /\ command = NoCommand
    /\ log_outcome = "none"
    /\ console = <<>>
    /\ NoProcess
    /\ template \in Templates
    /\ variables \in Mappings
    /\ content = <<>>
    /\ next_key = 1
    /\ output = <<>>
    /\ rpc = "read"
    /\ writes = <<>>
    /\ NoLogging
    /\ NoTally

\* write_init_args is called again with the same template and mapping;
\* the locals of the call before are gone.
MaxRenders == 2

WriteInitArgsAgain ==
    /\ rpc = "written"
    /\ Len(writes) < MaxRenders
    /\ rpc' = "read"
    /\ content' = <<>>
    /\ next_key' = 1
    /\ UNCHANGED <<template, variables, output, writes>>
    /\ UNCHANGED <<session, logging, tally>>

NextRender == ReadTemplate \/ ReplaceKey \/ WriteCandid \/ WriteInitArgsAgain

SpecRender == InitRender /\ [][NextRender]_vars

\* The rendering in which no key scans text that an earlier key inserted:
\* every character carries where it came from, and a placeholder is matched
\* only on characters of the template.
FromTemplate(text) == [i \in 1..Len(text) |-> [c |-> text[i], inserted |-> FALSE]]

Inserted(text) == [i \in 1..Len(text) |-> [c |-> text[i], inserted |-> TRUE]]

Plain(marked) == [i \in 1..Len(marked) |-> marked[i].c]

RECURSIVE ReplaceInTemplateText(_, _, _)
ReplaceInTemplateText(marked, old, new) ==
    IF Len(marked) < Len(old) THEN marked
    ELSE IF \A i \in 1..Len(old) : marked[i].c = old[i] /\ ~marked[i].inserted
         THEN Inserted(new)
              \o ReplaceInTemplateText(SubSeq(marked, Len(old) + 1, Len(marked)), old, new)
         ELSE <<marked[1]>> \o ReplaceInTemplateText(Tail(marked), old, new)

RECURSIVE RenderWithoutRescan(_, _)
RenderWithoutRescan(marked, mapping) ==
    IF mapping = <<>> THEN marked
    ELSE RenderWithoutRescan(
             ReplaceInTemplateText(marked, Placeholder(Head(mapping).key),
                                   Head(mapping).value),
             Tail(mapping))

\* C4: write_init_args performs no recursive expansion: keys are substituted
\* in mapping order and a later key never re-scans text inserted by an
\* earlier key's substitution, so the file written is the template with
\* only its own placeholders replaced, and a value that contains
\* {other_key} is in the output verbatim.
C4_NoRecursiveExpansion ==
    rpc = "written" =>
        output = Plain(RenderWithoutRescan(FromTemplate(template), variables))

\* ========================================================= log_execution
\* One call of log_execution after another, followed statement by statement,
\* with the child process writing to its two pipes at its own pace.
MaxRuns == 2

MaxChildLines == 2

PipeCapacity == 1

\* A line of text: who wrote it, to which stream, and which of its lines it
\* is. The two header lines of the log name the script and draw a rule.
Line(run, stream, n) == [run |-> run, stream |-> stream, n |-> n]

Header(name) == <<Line(0, "Execution Log for", name), Line(0, "=" , 80)>>

\* print(f"{COLOR_RED}{line}{COLOR_RESET}", end=''): the line between the
\* colour codes.
Red(line) == [line EXCEPT !.stream = "red stderr"]

RunningBanner(name) == Line(0, "Running", name)

LoggedBanner(name) == Line(0, "logged to", name)

\* What a child may do: write at most MaxChildLines lines, each to stdout
\* or to stderr, and exit.
RECURSIVE StreamsOfLen(_)
StreamsOfLen(n) ==
    IF n = 0 THEN {<<>>}
    ELSE {<<s>> \o t : s \in {"stdout", "stderr"}, t \in StreamsOfLen(n - 1)}

Programs == UNION {StreamsOfLen(n) : n \in 0..MaxChildLines}

ProgramLines(run, program) ==
    [i \in 1..Len(program) |-> Line(run, program[i], i)]

\* Faulty variant: the log file is opened for appending.
open_w_keeps(file) == File(file.lines)

\* open(log_file, 'w'): the file is created, or truncated when it exists.
open_w(file) == File(<<>>)

write(file, lines) == File(file.lines \o lines)

\* The "with" block is left, by its end or by an exception: the log file is
\* closed, and nothing else is.
with_exit(handle) == IF handle = "open" THEN "closed" ELSE handle

\* log_execution is called: main_menu and canister_selection have returned.
BetweenCalls == lpc \in {"idle", "returned", "raised"}

\* Time passes between two calls (log_execution reads the clock once, first
\* thing, so time passing during a call changes nothing).
Tick ==
    /\ BetweenCalls
    /\ clock < MaxClock
    /\ clock' = clock + 1
    /\ UNCHANGED <<logs, script_name, timestamp, log, process, child,
                   stdout_pipe, stderr_pipe, terminal, lpc, starts>>
    /\ UNCHANGED <<session, render, tally>>

\* log_execution up to the opening of the log file. The objects of the
\* call before are gone.
OpenLog(name, ok) ==
    /\ BetweenCalls
    /\ Len(starts) < MaxRuns
    /\ script_name' = name
    /\ timestamp' = strftime(clock)
    /\ starts' = Append(starts, [second |-> strftime(clock), script |-> name,
                                 opened |-> ok])
    /\ process' = NoPopen
    /\ child' = NoChild
    /\ stdout_pipe' = <<>>
    /\ stderr_pipe' = <<>>
    /\ IF ok
       THEN /\ logs' = [logs EXCEPT ![strftime(clock)] = open_w(@)]
            /\ log' = "open"
            /\ terminal' = <<RunningBanner(name)>>
            /\ lpc' = "header"
       ELSE /\ log' = "none"
            /\ terminal' = <<RunningBanner(name)>>
            /\ lpc' = "raised"
            /\ UNCHANGED logs
    /\ UNCHANGED clock
    /\ UNCHANGED <<session, render, tally>>

\* The two header lines, and Popen: it starts the child with a pipe for
\* each stream, or raises.
WriteHeaderAndPopen(ok, program) ==
    /\ lpc = "header"
    /\ logs' = [logs EXCEPT ![timestamp] = write(@, Header(script_name))]
    /\ IF ok
       THEN /\ process' = [stdout |-> "open", stderr |-> "open", waited |-> FALSE]
            /\ child' = [state |-> "running",
                         todo |-> ProgramLines(Len(starts), program),
                         wrote |-> <<>>]
            /\ lpc' = "read stdout"
            /\ UNCHANGED log
       ELSE /\ log' = with_exit(log)
            /\ lpc' = "raised"
            /\ UNCHANGED <<process, child>>
    /\ UNCHANGED <<clock, script_name, timestamp, stdout_pipe, stderr_pipe,
                   terminal, starts>>
    /\ UNCHANGED <<session, render, tally>>

\* --------------------------------------------------------- the child
\* The parent is inside the "with" block with the child started; once
\* log_execution has left, nothing reads what the child does.
Streaming == lpc \in {"read stdout", "read stderr", "close"}

PipeOf(stream) == IF stream = "stdout" THEN stdout_pipe ELSE stderr_pipe

\* The child is at a write to a pipe that is full.
ChildBlocked ==
    /\ child.state = "running"
    /\ child.todo # <<>>
    /\ Len(PipeOf(Head(child.todo).stream)) >= PipeCapacity

\* The child writes its next line; the write blocks while the pipe is full.
ChildWrite ==
    /\ Streaming
    /\ child.state = "running"
    /\ child.todo # <<>>
    /\ ~ChildBlocked
    /\ LET line == Head(child.todo)
       IN  IF line.stream = "stdout"
           THEN stdout_pipe' = Append(stdout_pipe, line) /\ UNCHANGED stderr_pipe
           ELSE stderr_pipe' = Append(stderr_pipe, line) /\ UNCHANGED stdout_pipe
    /\ child' = [child EXCEPT !.todo = Tail(@), !.wrote = Append(@, Head(child.todo))]
    /\ UNCHANGED <<clock, logs, script_name, timestamp, log, process, terminal,
                   lpc, starts>>
    /\ UNCHANGED <<session, render, tally>>

\* The child has written all its lines and exits: the write ends of both
\* pipes are closed, and a reader sees end of file once a pipe is empty.
ChildExit ==
    /\ Streaming
    /\ child.state = "running"
    /\ child.todo = <<>>
    /\ child' = [child EXCEPT !.state = "exited"]
    /\ UNCHANGED <<clock, logs, script_name, timestamp, log, process,
                   stdout_pipe, stderr_pipe, terminal, lpc, starts>>
    /\ UNCHANGED <<session, render, tally>>

\* -------------------------------------------------- the two read loops
\* readline() on a pipe: blocks while the pipe is empty and the child has
\* it open, gives '' at end of file.
AtEOF(pipe) == pipe = <<>> /\ child.state = "exited"

\* Faulty variant: the stdout line is printed and not written to the log.
ReadStdoutLine_not_logged(raises) ==
    /\ lpc = "read stdout"
    /\ stdout_pipe # <<>>
    /\ stdout_pipe' = Tail(stdout_pipe)
    /\ terminal' = Append(terminal, Head(stdout_pipe))
    /\ IF raises
       THEN /\ log' = with_exit(log)
            /\ lpc' = "raised"
       ELSE UNCHANGED <<log, lpc>>
    /\ UNCHANGED logs
    /\ UNCHANGED <<clock, script_name, timestamp, process, child, stderr_pipe,
                   starts>>
    /\ UNCHANGED <<session, render, tally>>

\* One pass of "for line in iter(process.stdout.readline, '')": the line is
\* printed and written to the log; log.write may raise (the disk is full),
\* and the exception leaves the "with" block and log_execution.
ReadStdoutLine(raises) ==
    /\ lpc = "read stdout"
    /\ stdout_pipe # <<>>
    /\ stdout_pipe' = Tail(stdout_pipe)
    /\ terminal' = Append(terminal, Head(stdout_pipe))
    /\ IF raises
       THEN /\ log' = with_exit(log)
            /\ lpc' = "raised"
            /\ UNCHANGED logs
       ELSE /\ logs' = [logs EXCEPT ![timestamp] = write(@, <<Head(stdout_pipe)>>)]
            /\ UNCHANGED <<log, lpc>>
    /\ UNCHANGED <<clock, script_name, timestamp, process, child, stderr_pipe,
                   starts>>
    /\ UNCHANGED <<session, render, tally>>

\* readline() gives '': the first loop ends and the second begins.
StdoutEOF ==
    /\ lpc = "read stdout"
    /\ AtEOF(stdout_pipe)
    /\ lpc' = "read stderr"
    /\ UNCHANGED <<clock, logs, script_name, timestamp, log, process, child,
                   stdout_pipe, stderr_pipe, terminal, starts>>
    /\ UNCHANGED <<session, render, tally>>

\* One pass of "for line in iter(process.stderr.readline, '')".
ReadStderrLine(raises) ==
    /\ lpc = "read stderr"
    /\ stderr_pipe # <<>>
    /\ stderr_pipe' = Tail(stderr_pipe)
    /\ terminal' = Append(terminal, Red(Head(stderr_pipe)))
    /\ IF raises
       THEN /\ log' = with_exit(log)
            /\ lpc' = "raised"
            /\ UNCHANGED logs
       ELSE /\ logs' = [logs EXCEPT ![timestamp] = write(@, <<Head(stderr_pipe)>>)]
            /\ UNCHANGED <<log, lpc>>
    /\ UNCHANGED <<clock, script_name, timestamp, process, child, stdout_pipe,
                   starts>>
    /\ UNCHANGED <<session, render, tally>>

StderrEOF ==
    /\ lpc = "read stderr"
    /\ AtEOF(stderr_pipe)
    /\ lpc' = "close"
    /\ UNCHANGED <<clock, logs, script_name, timestamp, log, process, child,
                   stdout_pipe, stderr_pipe, terminal, starts>>
    /\ UNCHANGED <<session, render, tally>>

\* process.stdout.close(), process.stderr.close(), process.wait(), the end
\* of the "with" block and the last print.
CloseAndWait ==
    /\ lpc = "close"
    /\ process' = [stdout |-> "closed", stderr |-> "closed", waited |-> TRUE]
    /\ log' = with_exit(log)
    /\ terminal' = Append(terminal, LoggedBanner(script_name))
    /\ lpc' = "returned"
    /\ UNCHANGED <<clock, logs, script_name, timestamp, child, stdout_pipe,
                   stderr_pipe, starts>>
    /\ UNCHANGED <<session, render, tally>>

InitLog ==
    /\ NoSession
    /\ NoProcess
    /\ NoRendering
    /\ NoLogging
    /\ NoTally

NextLog ==
    \/ Tick
    \/ \E name \in Scripts, ok \in BOOLEAN : OpenLog(name, ok)
    \/ \E ok \in BOOLEAN, program \in Programs : WriteHeaderAndPopen(ok, program)
    \/ ChildWrite
    \/ ChildExit
    \/ \E raises \in BOOLEAN : ReadStdoutLine(raises)
    \/ StdoutEOF
    \/ \E raises \in BOOLEAN : ReadStderrLine(raises)
    \/ StderrEOF
    \/ CloseAndWait

SpecLog == InitLog /\ [][NextLog]_vars

\* ======================================================= validate_output
\* validate_output called again and again on one counters dict, with every
\* actual and expected result.
MaxCalls == 4

Results == {"Success", "Failed"}

CallValidateOutput(actual, expected) ==
    /\ Len(history) < MaxCalls
    /\ counters' = validate_output(actual, expected, counters)
    /\ history' = Append(history, [actual |-> actual, expected |-> expected])
    /\ UNCHANGED <<fs, pc, locals, console, spc, template_path, written, calls,
                   deploy_success, exit_status>>
    /\ UNCHANGED <<render, logging>>

InitCounters ==
    /\ NoSession
    /\ NoProcess
    /\ NoRendering
    /\ NoLogging
    /\ NoTally

NextCounters ==
    \E actual \in Results, expected \in Results : CallValidateOutput(actual, expected)

SpecCounters == InitCounters /\ [][NextCounters]_vars

\* =================================================== deployment runner
DeployOrder == <<"create", "build", "install">>

Rollback == <<"stop", "delete">>

CmdsOf(cs) == [i \in 1..Len(cs) |-> cs[i].cmd]

IsPrefix(a, b) == Len(a) <= Len(b) /\ SubSeq(b, 1, Len(a)) = a

Succeeded(call) == call.outcome = "exit0"

\* deploy_canister has returned (its result is assigned by main).
DeployReturned == deploy_success # "unset"

\* Step k is the first of create, build, install to fail.
FirstToFail(k) ==
    /\ k <= Len(calls)
    /\ ~Succeeded(calls[k])
    /\ \A j \in 1..(k - 1) : Succeeded(calls[j])

\* C1: in deploy_canister, when step k of create, build, install is the
\* first to fail (non-zero exit or exception), the commands run are exactly
\* the steps up to k followed by stop and then delete, each once: no step
\* after k is invoked, the runner goes on through the rollback, and once it
\* has returned its result is False.
C1_RollbackOnFirstFailure ==
    \A k \in 1..Len(DeployOrder) :
        FirstToFail(k) =>
            LET expected == SubSeq(DeployOrder, 1, k) \o Rollback
                done     == Len(calls)
            IN  /\ IsPrefix(CmdsOf(calls), expected)
                /\ done < Len(expected) => spc = expected[done + 1] /\ ~DeployReturned
                /\ done = Len(expected) => deploy_success = "False"

\* Create succeeded, build failed: stop and delete were run once each,
\* install never, and the runner returned False.
C1_Witness ==
    /\ deploy_success = "False"
    /\ CmdsOf(calls) = <<"create", "build", "stop", "delete">>
    /\ Succeeded(calls[1])
    /\ calls[2].outcome = "nonzero"

\* C2: deploy_canister returns True if and only if create, build and install
\* were each invoked exactly once, in that order, and each exited with code
\* 0; the deployment steps run are always an initial part of create, build,
\* install (none skipped, none reordered), and True is never the result
\* once a step has failed.
C2_TrueIffAllThreeSucceeded ==
    /\ deploy_success = "True" <=>
           /\ DeployReturned
           /\ CmdsOf(calls) = DeployOrder
           /\ \A i \in 1..Len(calls) : Succeeded(calls[i])
    /\ \E k \in 0..Len(DeployOrder) :
           \/ CmdsOf(calls) = SubSeq(DeployOrder, 1, k)
           \/ IsPrefix(SubSeq(DeployOrder, 1, k), CmdsOf(calls))
              /\ k > 0
              /\ IsPrefix(CmdsOf(calls), SubSeq(DeployOrder, 1, k) \o Rollback)
    /\ (\E i \in 1..Len(calls) : ~Succeeded(calls[i])) => deploy_success # "True"

\* All three steps ran and exited with 0, and the runner returned True.
C2_Witness ==
    /\ deploy_success = "True"
    /\ CmdsOf(calls) = DeployOrder

\* C3: the rollback is best-effort and does not mask the failure: whatever
\* stop's outcome, delete is the next command run; whatever delete's
\* outcome, it is the last command, deploy_canister returns False, nothing
\* is raised (main goes on to validate_output and the script ends with
\* status 0 after its summary, the failure counted).
C3_RollbackBestEffort ==
    \A i \in 1..Len(calls) :
        /\ calls[i].cmd = "stop" =>
               /\ i < Len(calls) => calls[i + 1].cmd = "delete"
               /\ i = Len(calls) => spc = "delete"
        /\ calls[i].cmd = "delete" =>
               /\ i = Len(calls)
               /\ deploy_success = "False"
               /\ spc \in {"validate_output", "exited"}
               /\ spc = "exited" => exit_status = 0 /\ counters.failed = 1

\* Install failed, then stop raised and delete exited non-zero, and the
\* runner still returned False.
C3_Witness ==
    /\ deploy_success = "False"
    /\ Len(calls) = 5
    /\ calls[4].cmd = "stop" /\ calls[4].outcome = "exception"
    /\ calls[5].cmd = "delete" /\ calls[5].outcome = "nonzero"
    /\ spc = "exited"

\* ============================================= template check in the script
\* The template path the payload carries for the selected unit.
PayloadPath ==
    LET info == json_loads(command.arg)
    IN  GetTemplatePath(GetUnit(info.canisters, info.selected_canister))

ScriptRunning == pc = "streaming"

\* Whenever main's check or write_init_args runs while the selected unit has
\* no usable template, the script exits with status 1, no file written and
\* no command run.
C5_ExitsAtRender ==
    (/\ ScriptRunning
     /\ spc \in {"check_template", "write_init_args"}
     /\ spc' # spc
     /\ PayloadPath = None \/ ~PathExists(args_templates, PayloadPath))
    => /\ spc' = "exited"
       /\ exit_status' = 1
       /\ written' = {}
       /\ calls' = <<>>

\* A script that has ended, whatever its status, leaves the orchestrator at
\* the top of its loop.
C5_LoopContinues ==
    (ScriptRunning /\ spc = "exited" /\ pc' # pc) => pc' = "list_test_scripts"

\* With an absent template path a script that has ended has status 1, wrote
\* no file and ran no command.
C5_AbsentBlocks ==
    (ScriptRunning /\ spc = "exited" /\ PayloadPath = None)
    => exit_status = 1 /\ written = {} /\ calls = <<>>

\* C5: if the selected unit's template path is absent (None or key missing)
\* or names a file that does not exist when it is rendered, the test script
\* exits with status 1 before any parameter file is written and before
\* create, build or install is invoked; only that script invocation ends,
\* and the orchestrator goes back to the top of its loop.
C5_MissingTemplateAborts ==
    /\ [](C5_AbsentBlocks /\ pc # "crashed")
    /\ [][C5_ExitsAtRender /\ C5_LoopContinues]_vars

\* The payload named a template that was deleted before write_init_args
\* looked for it: the script exited with 1 there, nothing written or run.
C5_Witness ==
    /\ ScriptRunning
    /\ spc = "exited"
    /\ exit_status = 1
    /\ PayloadPath # None
    /\ console = <<"ERROR: NO TEMPLATE FILE FOUND AT">>

\* ======================================================= menu prompters
Reprompts == {<<"Please enter a valid number.">>, <<"Invalid choice. Try again.">>}

\* One pass of main_menu over N = Len(test_scripts) scripts.
C6_MainMenu ==
    pc = "main_menu" =>
    \A line \in Lines :
        MainMenu(line) =>
            LET c == int(line)
            IN  IF ~c.ok \/ c.val < 0 \/ c.val > Len(test_scripts)
                THEN /\ pc' = "main_menu"
                     /\ selected_script' = selected_script
                     /\ console' \in Reprompts
                ELSE IF c.val = 0
                THEN selected_script' = None /\ pc' = "exited"
                ELSE selected_script' = test_scripts[c.val] /\ pc' = "load_dfx_json"

\* One pass of canister_selection over the N = Len(canisters) units.
C6_CanisterSelection ==
    pc = "canister_selection" =>
    \A line \in Lines :
        CanisterSelection(line) =>
            LET c == int(line)
            IN  IF ~c.ok \/ c.val < 0 \/ c.val > Len(canisters)
                THEN /\ pc' = "canister_selection"
                     /\ selected_canister' = selected_canister
                     /\ command' = command
                     /\ console' \in Reprompts
                ELSE IF c.val = 0
                THEN selected_canister' = None /\ pc' = "list_test_scripts"
                ELSE /\ selected_canister' = canisters[c.val].name
                     /\ pc' = "log_execution"

\* With no item listed only 0 returns.
C6_EmptyMenus ==
    /\ (pc = "main_menu" /\ test_scripts = <<>> /\ pc' # pc) =>
           \A line \in Lines : MainMenu(line) => int(line).ok /\ int(line).val = 0
    /\ (pc \in {"canister_selection (no manifest)",
                "canister_selection (no canisters)"} /\ pc' # pc) =>
           \A line \in Lines :
               (CanisterSelectionNoManifest(line) \/ CanisterSelectionNoCanisters(line))
               => int(line).ok /\ int(line).val = 0 /\ selected_canister' = None

\* C6: for main_menu and canister_selection over a list of N items, every
\* non-numeric input and every integer outside [0, N] prompts again and
\* returns no selection; 0 returns None; k with 1 <= k <= N returns exactly
\* the k-th listed name; with N = 0 the only input that returns is 0.
C6_PrompterContract ==
    [][C6_MainMenu /\ C6_CanisterSelection /\ C6_EmptyMenus]_vars

\* Both prompters returned a listed name that is not its own position: the
\* first script and the last unit listed.
C6_Witness ==
    /\ pc = "log_execution"
    /\ selected_script = test_scripts[1] /\ selected_script # 1
    /\ Len(canisters) = MaxUnits - 1
    /\ selected_canister = canisters[Len(canisters)].name
    /\ selected_canister # Len(canisters)

\* ===================================================== template locator
\* find_template_files has just run (on a manifest with at least one unit).
LocatorRan == pc = "find_template_files" /\ pc' = "canister_selection"

FileOf(unit) == PathExists(args_templates, TemplatePath(unit.name))

\* C7 as stated: for every manifest with at least one unit and every
\* filesystem state, after find_template_files each unit record carries its
\* template path if and only if <templates-dir>/<unit-name>.template exists,
\* and every other unit carries the explicit absent marker None.
C7_PathIffFileExists ==
    [][LocatorRan =>
         \A i \in 1..Len(canisters') :
             canisters'[i].template_path =
                 IF FileOf(canisters'[i]) THEN TemplatePath(canisters'[i].name)
                 ELSE None]_vars

\* C7 amended: that holds when the templates directory exists; when it does
\* not, find_template_files prints its warning and leaves every record as
\* it was, with no "template_path" key at all (neither a path nor None).
C7_PathIffFileExistsInExistingDir ==
    [][LocatorRan =>
         /\ Len(canisters') = Len(canisters) /\ Len(canisters) >= 1
         /\ \A i \in 1..Len(canisters') :
                /\ canisters'[i].name = canisters[i].name
                /\ canisters'[i].template_path =
                       IF ~args_templates.exists THEN canisters[i].template_path
                       ELSE IF FileOf(canisters'[i])
                            THEN TemplatePath(canisters'[i].name)
                            ELSE None
                /\ ~args_templates.exists => canisters'[i].template_path = KeyMissing]_vars

\* The locator has run on two units, one with a template file and one
\* without: the first carries its path, the second None.
C7_Witness ==
    /\ pc = "canister_selection"
    /\ console = <<>>
    /\ \E i, j \in 1..Len(canisters) :
           /\ canisters[i].template_path = TemplatePath(canisters[i].name)
           /\ FileOf(canisters[i])
           /\ canisters[j].template_path = None
           /\ ~FileOf(canisters[j])

\* ========================================== no manifest, or no units
NoUnits == dfx_json.state # "ok" \/ dfx_json.canisters = <<>>

AbortOnlyMenu ==
    pc \in {"canister_selection (no manifest)", "canister_selection (no canisters)"}

\* In the abort-only menu every input but 0 prompts again and 0 goes back
\* to the top of the loop.
C8_OnlyAbort ==
    (AbortOnlyMenu /\ (console' # console \/ pc' # pc)) =>
        \/ pc' = pc /\ console' \in Reprompts /\ selected_canister' = selected_canister
        \/ pc' = "list_test_scripts" /\ selected_canister' = None

\* C8: when the manifest is missing or unparseable (load_dfx_json returns
\* None) or has no units, the unit menu accepts only abort (any input but 0
\* prompts again, 0 returns to the script menu), no script is invoked in
\* that iteration, and dfx_data.get is never reached with dfx_data None.
C8_NoManifestOnlyAbort ==
    /\ [](NoUnits => pc \notin {"find_template_files", "canister_selection",
                                "log_execution", "streaming"})
    /\ [](NoUnits => command = NoCommand /\ spc = "not started")
    /\ [](pc = "get_canisters" => ~dfx_data.none)
    /\ [](pc # "crashed")
    /\ [](dfx_json.state # "ok" /\ pc \notin {"list_test_scripts", "main_menu",
                                             "load_dfx_json", "exited"}
          => pc = "canister_selection (no manifest)" /\ dfx_data.none)
    /\ [][C8_OnlyAbort]_vars

\* The manifest is missing, the abort-only menu was shown and 0 was chosen.
C8_Witness ==
    /\ dfx_json.state = "missing"
    /\ pc = "list_test_scripts"
    /\ console = <<"Returning to main menu...">>
    /\ selected_script # None

\* ====================================================== orchestrator loop
Invoking == pc \in {"log_execution", "streaming"}

\* log_execution ends, by returning or by raising: main reports the
\* exception if there was one and goes back to the top of the loop.
C9_BackToMenu ==
    (Invoking /\ ~Invoking') =>
        /\ pc' = "list_test_scripts"
        /\ log_outcome' \in {"returned", "raised"}
        /\ console'[Len(console')] = "Returning to main menu..."
        /\ log_outcome' = "raised" => console'[1] = "UNEXPECTED ERROR OCCURRED"

\* The session ends in the script menu, on input 0, and nowhere else.
C9_ExitOnlyByZero ==
    (pc' = "exited" /\ pc # "exited") =>
        /\ pc = "main_menu"
        /\ selected_script' = None
        /\ \E line \in Lines : int(line).ok /\ int(line).val = 0 /\ MainMenu(line)

\* C9: after every script invocation, whether log_execution returns or
\* raises, the exception (if any) is reported and the orchestrator is back
\* at the script menu; the session ends only when 0 is chosen there.
C9_LoopSurvivesInvocation ==
    /\ [][C9_BackToMenu /\ C9_ExitOnlyByZero]_vars
    /\ [](pc \in {"exited", "crashed"} => ~Invoking /\ pc = "exited")
    /\ [](pc = "list_test_scripts" /\ log_outcome # "none" => ENABLED ListTestScripts)

\* log_execution raised, the error was reported and the loop is at its top.
C9_Witness ==
    /\ pc = "list_test_scripts"
    /\ log_outcome = "raised"
    /\ console = <<"UNEXPECTED ERROR OCCURRED", "Returning to main menu...">>

\* ================================================== configuration errors
ManifestError == dfx_json.state \in {"missing", "malformed"}

\* Each configuration error is reported by the step that meets it, and the
\* loaders give None and the empty list.
C10_Reported ==
    /\ (pc = "load_dfx_json" /\ pc' # pc /\ ManifestError) =>
           /\ dfx_data'.none
           /\ console' = IF dfx_json.state = "missing"
                         THEN <<"WARNING: 'dfx.json' FILE NOT FOUND">>
                         ELSE <<"WARNING: FAILED TO PARSE 'dfx.json'">>
           /\ pc' = "canister_selection (no manifest)"
    /\ (pc = "list_test_scripts" /\ pc' # pc /\ ~tests_dir.exists) =>
           /\ test_scripts' = <<>>
           /\ console' = <<"WARNING: 'tests' DIRECTORY NOT FOUND.">>
           /\ pc' = "main_menu"
    /\ (pc = "find_template_files" /\ pc' # pc /\ ~args_templates.exists) =>
           /\ console' = <<"WARNING: 'args_templates' DIRECTORY NOT FOUND.">>
           /\ pc' = "canister_selection"

\* The menus that follow a missing scripts directory or a manifest error
\* list nothing, and nothing but 0 is accepted there.
C10_EmptyMenus ==
    /\ (pc = "main_menu" /\ ~tests_dir.exists) => test_scripts = <<>>
    /\ ManifestError =>
           pc \in {"list_test_scripts", "main_menu", "load_dfx_json",
                   "canister_selection (no manifest)", "exited"}

\* C10 as stated: every configuration error (manifest missing, manifest not
\* valid JSON, template directory missing, script directory missing) is
\* reported on the console, leaves an empty selectable set and never
\* crashes the session.
C10_ConfigErrorsGiveEmptyMenus ==
    /\ [][C10_Reported]_vars
    /\ [](C10_EmptyMenus /\ pc # "crashed")
    /\ []((pc = "canister_selection" /\ ~args_templates.exists) => canisters = <<>>)

\* C10 amended: every such error is reported and none crashes the session;
\* a missing or invalid manifest (load_dfx_json returns None) and a missing
\* script directory (list_test_scripts returns the empty list) leave an
\* empty selectable set, but a missing template directory leaves every unit
\* of the manifest selectable, without a template path.
C10_ConfigErrorsReportedNoCrash ==
    /\ [][C10_Reported]_vars
    /\ [](C10_EmptyMenus /\ pc # "crashed")
    /\ []((pc = "canister_selection" /\ ~args_templates.exists) =>
             /\ canisters # <<>>
             /\ \A i \in 1..Len(canisters) :
                    /\ canisters[i].name = dfx_json.canisters[i]
                    /\ canisters[i].template_path = KeyMissing)

\* The manifest is malformed: the warning was printed and the abort-only
\* unit menu is showing.
C10_Witness ==
    /\ dfx_json.state = "malformed"
    /\ pc = "canister_selection (no manifest)"
    /\ dfx_data.none
    /\ console = <<"WARNING: FAILED TO PARSE 'dfx.json'">>

\* ================================================ log_execution: claims
\* log_execution has left, by returning or by an exception, after Popen
\* had started the child.
LeftAfterPopen == lpc \in {"returned", "raised"} /\ process.stdout # "none"

\* C11: log_execution releases its resources on every exit path: whenever
\* it returns or raises after the subprocess was started, the subprocess's
\* stdout and stderr have been closed, the process has been waited for, and
\* the log file handle has been closed.
C11_ResourcesReleased ==
    LeftAfterPopen =>
        /\ process.stdout = "closed"
        /\ process.stderr = "closed"
        /\ process.waited
        /\ log = "closed"

\* The calls that opened a log file named by second t, and the last of them.
OpenedAt(t) == {i \in 1..Len(starts) : starts[i].opened /\ starts[i].second = t}

LastOpenedAt(t) == CHOOSE i \in OpenedAt(t) : \A j \in OpenedAt(t) : j <= i

\* The lines are the beginning of a log of call i: the two header lines
\* naming its script, then lines of its own child only.
LogOfCall(lines, i) ==
    /\ IsPrefix(IF Len(lines) < 2 THEN lines ELSE SubSeq(lines, 1, 2),
                Header(starts[i].script))
    /\ \A k \in 3..Len(lines) : lines[k].run = i

C12_FilePerStartSecond ==
    \A t \in Seconds :
        /\ logs[t].exists <=> OpenedAt(t) # {}
        /\ logs[t].exists => LogOfCall(logs[t].lines, LastOpenedAt(t))

\* A call that opens its log creates or truncates the file named by the
\* second it started in and touches no other; no step of log_execution
\* writes to a file other than the one of its own timestamp.
C12_OneFilePerCall ==
    /\ starts' # starts /\ starts'[Len(starts')].opened =>
           /\ starts'[Len(starts')].second = strftime(clock)
           /\ logs'[strftime(clock)] = File(<<>>)
           /\ \A u \in Seconds \ {strftime(clock)} : logs'[u] = logs[u]
    /\ starts' = starts =>
           \A u \in Seconds \ {timestamp} : logs'[u] = logs[u]

\* C12: each log_execution call (that opens its log) creates or truncates
\* exactly one log file, named by the second-granularity start timestamp;
\* after any sequence of calls there is one log file per distinct start
\* second, and when two calls start within the same second the file holds
\* only the second call's content.
C12_OneLogPerStartSecond ==
    []C12_FilePerStartSecond /\ [][C12_OneFilePerCall]_vars

\* Two calls started at different ticks of the same second, each with a
\* child that wrote a line; the second has returned.
C12_Witness ==
    /\ Len(starts) = 2
    /\ starts[1].opened /\ starts[2].opened
    /\ starts[1].second = starts[2].second
    /\ clock % TicksPerSecond = 1
    /\ lpc = "returned"
    /\ Len(logs[timestamp].lines) = 3

\* ============================================ the test script: claims
\* The script ends at this step.
ScriptEnds == spc # "exited" /\ spc' = "exited"

\* The template of the selected unit is absent or names no file.
TemplateMissing ==
    LET info == json_loads(command.arg)
        path == GetTemplatePath(GetUnit(info.canisters, info.selected_canister))
    IN  path = None \/ ~PathExists(args_templates, path)

\* An external command has just been run and failed.
CommandFailed == Len(calls') = Len(calls) + 1 /\ ~Succeeded(calls'[Len(calls')])

\* C13 as stated: the only error that ends the script outright is a missing
\* template file at render time; every other error (failure of the
\* identity-query command, failure of an external create/build/install
\* command) is reported and does not end the script before its summary.
C13_OnlyMissingTemplateTerminates ==
    [][ScriptEnds /\ exit_status' # 0 =>
            spc \in {"check_template", "write_init_args"} /\ TemplateMissing]_vars

\* The script ends only at the end of main, with status 0, or with status 1
\* and an error message at get_principal, at the template check of main, or
\* in write_init_args.
C13_WhereTheScriptEnds ==
    ScriptEnds =>
        \/ spc \in {"main", "validate_output"} /\ exit_status' = 0
        \/ /\ spc \in {"get_principal", "check_template", "write_init_args"}
           /\ exit_status' = 1
           /\ console' # <<>>

\* A failed external command is reported and the script goes on, through
\* the rollback, to validate_output and the summary.
C13_CommandFailureGoesOn ==
    /\ spc \in DeploySteps => spc' \in DeploySteps \cup {"validate_output"}
    /\ CommandFailed => console' # <<>>
    /\ spc = "validate_output" /\ spc' # spc =>
           /\ exit_status' = 0
           /\ console' = <<"TESTING COMPLETED">>
           /\ counters'.total = 1

\* C13, amended: in the canonical test script the errors that end the
\* script outright, each with an error message and exit status 1, are a
\* failure of the identity-query command, a missing template file (at the
\* check in main or in write_init_args), and an exception while the
\* template is read or the parameter file written; a failure of an external
\* create/build/install/stop/delete command is reported and never ends the
\* script before its final summary.
C13_TerminatingErrors ==
    [][C13_WhereTheScriptEnds /\ C13_CommandFailureGoesOn]_vars

\* The identity query failed and the script has ended with status 1,
\* before any template was looked at or any command run.
C13_Witness ==
    /\ spc = "exited"
    /\ exit_status = 1
    /\ console = <<"ERROR: COULD NOT FETCH PRINCIPAL">>
    /\ calls = <<>>

\* ============================================== the invocation: claims
\* The command has been built and the script is about to be run, or runs.
Invoked == pc \in {"log_execution", "streaming"}

\* A unit record as json.dumps writes it.
Dumped(info) ==
    [name |-> info.name,
     template_path |-> IF info.template_path = None THEN JsonNull
                       ELSE info.template_path]

\* C14: whenever the orchestrator invokes a script, the script is one of
\* the names listed in that iteration and it gets exactly one positional
\* argument, a JSON object whose "canisters" member is the complete unit
\* mapping loaded from the manifest in that iteration, as find_template_files
\* left it, and whose "selected_canister" member is a key of that mapping.
C14_PayloadIsTheWholeMapping ==
    Invoked =>
        /\ DOMAIN command = {"script", "arg"}
        /\ test_scripts = list_test_scripts(tests_dir).scripts
        /\ \E i \in 1..Len(test_scripts) : command.script = test_scripts[i]
        /\ DOMAIN command.arg = {"canisters", "selected_canister"}
        /\ dfx_json.state = "ok"
        /\ Len(command.arg.canisters) = Len(dfx_json.canisters)
        /\ \A i \in 1..Len(dfx_json.canisters) :
               /\ command.arg.canisters[i].name = dfx_json.canisters[i]
               /\ command.arg.canisters[i] = Dumped(canisters[i])
        /\ \E i \in 1..Len(dfx_json.canisters) :
               command.arg.selected_canister = dfx_json.canisters[i]

\* The second of two scripts is invoked for the second of two units, of
\* which only the first has a template.
C14_Witness ==
    /\ pc = "log_execution"
    /\ command.script = 2
    /\ Len(command.arg.canisters) = 2
    /\ command.arg.selected_canister = 2
    /\ command.arg.canisters[1].template_path = TemplatePath(1)
    /\ command.arg.canisters[2].template_path = JsonNull

\* ================================================== rendering: claims
\* C15: rendering is idempotent given identical inputs: for every template
\* and mapping, calling write_init_args twice with the same template and
\* mapping writes the same content both times to the one output file, and
\* the second call overwrites the first: the file holds that content once.
C15_RenderIdempotent ==
    /\ \A i \in 1..Len(writes) : writes[i] = writes[1]
    /\ rpc = "written" => output = writes[Len(writes)]

\* The second call has written, and the rendering changed the template.
C15_Witness ==
    /\ rpc = "written"
    /\ Len(writes) = 2
    /\ output # <<>>
    /\ output # template

\* ============================================ the unit display: claims
\* Two units are on display, one located with its template file and one
\* located without.
OneWithOneWithout ==
    /\ pc = "canister_selection"
    /\ Len(canisters) = 2
    /\ \E i, j \in 1..2 :
           /\ canisters[i].template_path = TemplatePath(canisters[i].name)
           /\ canisters[j].template_path = None

\* C16: in the unit-selection display, for a manifest with two units of
\* which one has a template file and the other has none, the unit without
\* is shown with the "NO TEMPLATE FILE FOUND" marker and the unit with a
\* template is shown with its path, in both orchestrator variants.
C16_NoTemplateMarked ==
    OneWithOneWithout =>
        \A i \in 1..2 :
            LET expected == IF canisters[i].template_path = None
                            THEN Shown("NO TEMPLATE FILE FOUND", None)
                            ELSE Shown("path", TemplatePath(canisters[i].name))
            IN  /\ template_path_shown(canisters[i]) = expected
                /\ template_path_shown_helper(canisters[i]) = expected

\* ================================================== the install: claims
\* The install commands run so far.
Installs == {i \in 1..Len(calls) : calls[i].cmd = "install"}

\* The unit the script was invoked for.
SelectedUnit == json_loads(command.arg).selected_canister

\* C17: the install step of deploy_canister passes the argument file if and
\* only if one was given; in the canonical script's main flow the file
\* given to install is exactly the file write_init_args wrote for the
\* selected unit in that same run.
C17_InstallGetsTheRenderedFile ==
    /\ \A f \in {None} \cup {CandidPath(Stem(TemplatePath(u))) : u \in Units} :
           install_cmd(f).argument = f
    /\ \A i \in Installs :
           /\ calls[i].argument_file # None
           /\ calls[i].argument_file = CandidPath(Stem(TemplatePath(SelectedUnit)))
           /\ written = {calls[i].argument_file}

\* Install has run for the second unit, after create and build.
C17_Witness ==
    /\ Installs = {3}
    /\ SelectedUnit = 2
    /\ calls[3].argument_file = CandidPath(Stem(TemplatePath(2)))

\* ================================================ the counters: claims
\* The calls so far in which the actual result was the expected one.
Passed == {i \in 1..Len(history) : history[i].actual = history[i].expected}

C18_CountersAddUp ==
    /\ counters.total = Len(history)
    /\ counters.success + counters.failed = counters.total
    /\ counters.success = Cardinality(Passed)
    /\ counters.id = Len(history) + 1

\* A call increments success and leaves failed, or the other way round,
\* the first exactly when actual = expected.
C18_OneOfTwoPerCall ==
    history' # history =>
        LET call == history'[Len(history')]
        IN  IF call.actual = call.expected
            THEN /\ counters'.success = counters.success + 1
                 /\ counters'.failed = counters.failed
            ELSE /\ counters'.success = counters.success
                 /\ counters'.failed = counters.failed + 1

WrittenTo(stream) == SelectSeq(child.wrote, LAMBDA l : l.stream = stream)

RedLines(lines) == [i \in 1..Len(lines) |-> Red(lines[i])]

\* What the log of the current call holds after its two header lines.
Logged ==
    IF Len(logs[timestamp].lines) <= 2 THEN <<>>
    ELSE SubSeq(logs[timestamp].lines, 3, Len(logs[timestamp].lines))

\* What the terminal shows of the current call after the "Running" line.
Printed == Tail(terminal)

MutualWait ==
    /\ lpc = "read stdout"
    /\ stdout_pipe = <<>>
    /\ ChildBlocked
    /\ Head(child.todo).stream = "stderr"

\* C20: log_execution returns for every child that writes finitely many
\* lines to stdout and stderr, in any interleaving, and exits: draining
\* stdout to end of file before reading stderr never leaves the parent,
\* waiting for the end of stdout, and the child, blocked writing to a full
\* stderr pipe, waiting on each other.
C20_NoMutualWait == ~MutualWait

\* ================================================= the rollback: claims
\* The calls of this run that ran a command of the given kind.
CallsOf(cmds) == {i \in 1..Len(calls) : calls[i].cmd \in cmds}

RollbackInvoked == CallsOf({"stop", "delete"}) # {}

StepFailed == \E i \in CallsOf({"create", "build", "install"}) : ~Succeeded(calls[i])

\* C21: deploy_canister never invokes stop or delete when create, build and
\* install all succeed: stop or delete is invoked in a run if and only if
\* one of the three deployment steps failed in that run (once a step has
\* failed, stop is the very next command), so a unit that was installed
\* successfully is never stopped or deleted by the runner.
C21_RollbackIffStepFailed ==
    /\ RollbackInvoked => StepFailed
    /\ StepFailed => RollbackInvoked \/ spc = "stop"
    /\ DeployReturned => (RollbackInvoked <=> StepFailed)
    /\ deploy_success = "True" =>
           /\ CmdsOf(calls) = DeployOrder
           /\ \A i \in 1..Len(calls) : Succeeded(calls[i])

\* Create, build and install have succeeded and deploy_canister has
\* returned True with no other command run.
C21_Witness ==
    /\ deploy_success = "True"
    /\ spc = "validate_output"
    /\ Len(calls) = 3
    /\ ~RollbackInvoked

====
